---- MODULE Spec2Model ----
(***************************************************************************)
(* Model of server/kapacitors.go: the kapacitor (alerting engine) instance *)
(* handlers scoped to a source, the alert-rule handlers that proxy to the  *)
(* instance's engine, and the pure helpers newAlertResponse,               *)
(* ValidRuleRequest, KapacitorStatus.Valid and postKapacitorRequest.Valid. *)
(*                                                                         *)
(* Go values:                                                              *)
(*   - a slice is [nil, elems]: nil = TRUE is the nil slice, make(T, 0) is *)
(*     the non-nil slice with no elements;                                 *)
(*   - a map is [nil, m] likewise;                                         *)
(*   - a pointer to string/bool is [nil, v];                               *)
(*   - *QueryConfig is a record with a nil flag;                           *)
(*   - a URL or an href is the sequence of its lexical tokens.             *)
(***************************************************************************)
EXTENDS Integers, Sequences, FiniteSets, TLC

\* ------------------------------------------------------------------ bounds

\* Longest AlertNodes sequence of an enumerated rule.
MaxNodes == 1
\* Longest Query.Fields sequence of an enumerated rule.
MaxFields == 2
\* Number of ids the servers store hands out before Add is no longer taken.
MaxServers == 2
\* Number of task ids the engines hand out before Create is no longer taken.
MaxTasks == 1
\* Number of task ids an engine can hold in the specification of the listing.
MaxListed == 2

\* ------------------------------------------------------------ Go values

NilSlice == [nil |-> TRUE, elems |-> << >>]
MkSlice(s) == [nil |-> FALSE, elems |-> s]
\* make([]T, 0)
MakeEmpty == MkSlice(<< >>)

EmptyFn == [k \in {} |-> << >>]
NilMap == [nil |-> TRUE, m |-> EmptyFn]
\* make(map[string][]string)
MakeMap == [nil |-> FALSE, m |-> EmptyFn]

\* nil *string, nil pointer to a URL string (tokens), nil *bool
NilPtr == [nil |-> TRUE, v |-> ""]
NilURL == [nil |-> TRUE, v |-> << >>]
NilBool == [nil |-> TRUE, v |-> FALSE]
Ptr(x) == [nil |-> FALSE, v |-> x]

SeqUpTo(S, n) == UNION {[1..k -> S] : k \in 0..n}

\* len(s) of a slice: 0 for nil
Len0(s) == Len(s.elems)

\* ------------------------------------------------- chronograf.AlertRule

\* (*QueryConfig)(nil)
NilQuery == [nil |-> TRUE, ID |-> "", Fields |-> NilSlice,
             GroupByTags |-> NilSlice, Tags |-> NilMap]

MkQuery(id, fields, groupBy, tags) ==
    [nil |-> FALSE, ID |-> id, Fields |-> fields,
     GroupByTags |-> groupBy, Tags |-> tags]

MkRule(id, name, every, query, alerts, nodes) ==
    [ID |-> id, Name |-> name, Every |-> every, Query |-> query,
     Alerts |-> alerts, AlertNodes |-> nodes]

\* ------------------------------------------------------------- hrefs, links

\* Tokens of the engine-relative locator of task tid (kapa.Client.Href).
Href(tid) == <<"/", "kapacitor", "/", "v1", "/", "tasks", "/", tid>>
\* kapa.Client.HrefOutput
HrefOutput(tid) == Href(tid) \o <<"/", "output">>

\* url.QueryEscape, token by token: "/" is percent-encoded, the unreserved
\* tokens (letters, digits) are kept.
QueryEscape(h) == [i \in DOMAIN h |-> IF h[i] = "/" THEN "%2F" ELSE h[i]]

\* "/chronograf/v1/sources/%d/kapacitors/%d/rules/%s"
RuleSelfLink(srcID, kapaID, ruleID) ==
    [base |-> "/chronograf/v1/sources", srcID |-> srcID, kapaID |-> kapaID,
     rest |-> "rules", arg |-> <<ruleID>>]
\* "/chronograf/v1/sources/%d/kapacitors/%d/proxy?path=%s"
ProxyPathLink(srcID, kapaID, escaped) ==
    [base |-> "/chronograf/v1/sources", srcID |-> srcID, kapaID |-> kapaID,
     rest |-> "proxy?path=", arg |-> escaped]

\* ------------------------------------------------------- newAlertResponse

\* Mutant of OrEmpty: the nil check is dropped and the slice is left as it is.
OrEmptyKeepsNil(s) == s

\* if x == nil { x = make([]T, 0) }
OrEmpty(s) == IF s.nil THEN MakeEmpty ELSE s

\* if res.Query.Tags == nil { res.Query.Tags = make(map[string][]string) }
OrEmptyMap(t) == IF t.nil THEN MakeMap ELSE t

\* for _, x := range s { ... }: x is a variable of the loop holding a COPY of
\* s[i]; Body(x) is the value of that variable when the iteration ends,
\* and no statement of the loop writes it back to s[i].
RangeByValue(s, Body(_)) ==
    [s EXCEPT !.elems = [i \in DOMAIN s.elems |->
                            LET x == Body(s.elems[i]) IN s.elems[i]]]

\* Body of the inner loop over n.Properties: p.Args defaulted on the copy p.
PropertyBody(p) == [p EXCEPT !.Args = OrEmpty(@)]

\* Body of the loop over res.AlertNodes, on the copy n.
NodeBody(n) ==
    LET n1 == [n EXCEPT !.Args = OrEmpty(@)]
        n2 == [n1 EXCEPT !.Properties = OrEmpty(@)]
    IN [n2 EXCEPT !.Properties = RangeByValue(@, PropertyBody)]

\* Body of the loop over res.Query.Fields, on the copy f.
FieldBody(f) == [f EXCEPT !.Funcs = OrEmpty(@)]

\* Mutant of DefaultQueryID: the rule id overwrites the query id always.
DefaultQueryIDAlways(qid, ruleID) == ruleID

\* if res.Query.ID == "" { res.Query.ID = res.ID }
DefaultQueryID(qid, ruleID) == IF qid = "" THEN ruleID ELSE qid

\* The if res.Query != nil { ... } block.
NormalizeQuery(q, ruleID) ==
    IF q.nil THEN q
    ELSE LET q1 == [q EXCEPT !.ID = DefaultQueryID(@, ruleID)]
             q2 == [q1 EXCEPT !.Fields = OrEmpty(@)]
             q3 == [q2 EXCEPT !.Fields = RangeByValue(@, FieldBody)]
             q4 == [q3 EXCEPT !.GroupByTags = OrEmpty(@)]
         IN [q4 EXCEPT !.Tags = OrEmptyMap(@)]

newAlertResponse(rule, tickScript, href, hrefOutput, status, srcID, kapaID) ==
    LET res == [ID |-> rule.ID, Name |-> rule.Name, Every |-> rule.Every,
                Query |-> rule.Query, Alerts |-> rule.Alerts,
                AlertNodes |-> rule.AlertNodes,
                Links |-> [Self |-> RuleSelfLink(srcID, kapaID, rule.ID),
                           Kapacitor |-> ProxyPathLink(srcID, kapaID, QueryEscape(href)),
                           Output |-> ProxyPathLink(srcID, kapaID, QueryEscape(hrefOutput))],
                TICKScript |-> tickScript,
                Status |-> status]
        r1 == [res EXCEPT !.Alerts = OrEmpty(@)]
        r2 == [r1 EXCEPT !.AlertNodes = OrEmpty(@)]
        r3 == [r2 EXCEPT !.AlertNodes = RangeByValue(@, NodeBody)]
    IN [r3 EXCEPT !.Query = NormalizeQuery(@, r3.ID)]

\* ------------------------------------------------------- ValidRuleRequest

\* Mutant of HasFuncs: only the first field is looked at.
HasFuncsFirstOnly(q) ==
    /\ Len0(q.Fields) > 0
    /\ Len0(q.Fields.elems[1].Funcs) > 0

\* The loop setting hasFuncs: some field has len(f.Funcs) > 0.
HasFuncs(q) == \E i \in DOMAIN q.Fields.elems : Len0(q.Fields.elems[i].Funcs) > 0

\* The returned error; "nil" is no error.
ValidRuleRequest(rule) ==
    IF rule.Query.nil THEN "invalid alert rule: no query defined"
    ELSE IF rule.Every = "" /\ HasFuncs(rule.Query)
         THEN "invalid alert rule: functions require an every window"
         ELSE "nil"

\* ------------------------------------------------- KapacitorStatus.Valid

\* Mutant of StatusValid: any non-empty status passes.
StatusValidNonEmpty(status) ==
    IF status # "" THEN "nil" ELSE "Invalid Kapacitor status"

StatusValid(status) ==
    IF status = "enabled" \/ status = "disabled" THEN "nil"
    ELSE "Invalid Kapacitor status"

\* --------------------------------------------- postKapacitorRequest.Valid

IsWord(t) == t \notin {":", "/"}

\* url.ParseRequestURI on the tokens of the raw URL: [err, Scheme].
\* Empty input is an error; a leading ":" is a missing scheme; a leading
\* word followed by ":" is the scheme; what remains must start with "/"
\* unless a scheme was found (an opaque URL).
ParseRequestURI(raw) ==
    IF raw = << >> THEN [err |-> "empty url", Scheme |-> ""]
    ELSE IF raw[1] = ":" THEN [err |-> "missing protocol scheme", Scheme |-> ""]
    ELSE LET hasScheme == IsWord(raw[1]) /\ Len(raw) >= 2 /\ raw[2] = ":"
             scheme == IF hasScheme THEN raw[1] ELSE ""
             rest == IF hasScheme THEN SubSeq(raw, 3, Len(raw)) ELSE raw
         IN IF rest = << >> \/ rest[1] # "/"
            THEN IF scheme # "" THEN [err |-> "nil", Scheme |-> scheme]
                 ELSE [err |-> "invalid URI for request", Scheme |-> ""]
            ELSE [err |-> "nil", Scheme |-> scheme]


\* Mutant of ValidURL: the scheme check is dropped.
ValidURLParseOnly(raw) ==
    IF ParseRequestURI(raw).err # "nil" THEN "invalid source URI" ELSE "nil"

\* The url part of Valid, shared by lines 27-33 and 212-218.
ValidURL(raw) ==
    LET u == ParseRequestURI(raw)
    IN IF u.err # "nil" THEN "invalid source URI"
       ELSE IF u.Scheme = "" THEN "Invalid URL; no URL scheme defined"
       ELSE "nil"

PostValid(p) ==
    IF p.Name.nil \/ p.URL.nil THEN "name and url required"
    ELSE ValidURL(p.URL.v)

PatchValid(p) ==
    IF ~p.URL.nil THEN ValidURL(p.URL.v) ELSE "nil"


\* ------------------------------------------------------------------ state

VARIABLES
    servers,   \* h.ServersStore: id -> chronograf.Server
    nextID,    \* the id the servers store assigns to the next Add
    engines,   \* per engine URL: task id -> [Rule, Status] (the remote engines)
    nextTid,   \* index in TaskIDs of the id the next created task gets
    rule,      \* input of the pure functions (specification SpecRule)
    called,    \* the pure function applied to rule last
    out,       \* its result
    workers    \* the concurrent UpdateKapacitor requests in flight
               \* (specification SpecConc): worker -> request, position, locals

vars == <<servers, nextID, engines, nextTid, rule, called, out, workers>>
pureVars == <<rule, called, out, workers>>

\* No request is being handled step by step.
NoWorkers == << >>
handlerVars == <<servers, nextID, engines, nextTid>>

\* The state the handlers read and write, as one value.
Cur == [servers |-> servers, nextID |-> nextID,
        engines |-> engines, nextTid |-> nextTid]

\* What handling one request yields: the state it leaves, the response it
\* writes, and the remote calls it issued, in order.
Out(st, rs, cs) == [st |-> st, resp |-> rs, calls |-> cs]

\* ----------------------------------------------------------------- inputs

\* Sources present in h.SourcesStore, and the source ids requests name.
Sources == {1, 2}
SrcIDs == {1, 2, 3}
\* Source ids named by the requests of the handlers that never consult
\* h.SourcesStore (all but NewKapacitor).
ScopeSrcIDs == {1, 2}
\* Kapacitor ids requests name: every id the store can assign (an id not yet
\* assigned, or deleted, is an unknown id).
KapaIDs == 1..MaxServers

URL1 == <<"http", ":", "/", "/", "e1">>
URL2 == <<"http", ":", "/", "/", "e2">>
NoSchemeURL == <<"/", "kapacitor">>
RelativeURL == <<"e1">>
EmptyURL == << >>

MkPost(name, url, user, pass, active) ==
    [malformed |-> FALSE, Name |-> name, URL |-> url,
     Username |-> user, Password |-> pass, Active |-> active]

\* Decoded bodies of POST /sources/:id/kapacitors; malformed is a body
\* json.Decode rejects.
PostBodies ==
    { MkPost(Ptr("kapa1"), Ptr(URL1), "", "", FALSE),
      MkPost(Ptr(""), Ptr(URL2), "u", "p", TRUE),
      MkPost(NilPtr, Ptr(URL1), "", "", FALSE),
      MkPost(Ptr("kapa1"), NilURL, "", "", FALSE),
      MkPost(Ptr("kapa1"), Ptr(EmptyURL), "", "", FALSE),
      MkPost(Ptr("kapa1"), Ptr(NoSchemeURL), "", "", FALSE),
      MkPost(Ptr("kapa1"), Ptr(RelativeURL), "", "", FALSE),
      [MkPost(NilPtr, NilURL, "", "", FALSE) EXCEPT !.malformed = TRUE] }

MkPatch(name, url, user, pass, active) ==
    [malformed |-> FALSE, Name |-> name, URL |-> url,
     Username |-> user, Password |-> pass, Active |-> active]

\* Decoded bodies of PATCH /sources/:id/kapacitors/:kid.
PatchBodies ==
    { MkPatch(NilPtr, NilURL, NilPtr, NilPtr, NilBool),
      MkPatch(Ptr(""), Ptr(URL2), Ptr("u"), Ptr("p"), Ptr(TRUE)),
      MkPatch(NilPtr, Ptr(NoSchemeURL), NilPtr, NilPtr, NilBool),
      [MkPatch(NilPtr, NilURL, NilPtr, NilPtr, NilBool) EXCEPT !.malformed = TRUE] }

\* The URLs a stored instance can carry: one remote engine each.
EngineURLs == {URL1, URL2}

\* Task ids, in the order the engines assign them.
TaskIDs == <<"t1", "t2", "t3", "t4">>
\* Task ids requests name: every id an engine can assign (an id not yet
\* assigned, or deleted, is an unknown id).
ReqTids == {TaskIDs[i] : i \in 1..MaxTasks}

MkField(name, funcs) == [Field |-> name, Funcs |-> funcs]

\* A rule with an aggregation and a window.
WindowRule ==
    MkRule("", "cpu", "10s",
           MkQuery("", MkSlice(<<MkField("usage", MkSlice(<<"mean">>))>>),
                   NilSlice, NilMap),
           NilSlice, NilSlice)
\* The same aggregation with every empty, submitted with an id of its own.
NoWindowRule == [WindowRule EXCEPT !.ID = "x1", !.Name = "mem", !.Every = ""]

\* Decoded bodies of rule POST and PUT requests.
RuleBodies == {WindowRule, NoWindowRule}

RuleReqBodies ==
    {[malformed |-> FALSE, rule |-> r] : r \in RuleBodies}
        \cup {[malformed |-> TRUE, rule |-> WindowRule]}

\* Values of the status field of a status request body.
StatusBodies == {"enabled", "disabled", "paused"}

StatusReqBodies ==
    {[malformed |-> FALSE, Status |-> s] : s \in StatusBodies}
        \cup {[malformed |-> TRUE, Status |-> ""]}

NoBody == "none"

\* -------------------------------------------------------------- responses

MkResp(kind, code, msg, body) ==
    [kind |-> kind, code |-> code, msg |-> msg, body |-> body]

\* notFound(w, id, logger): 404 "ID <id> not found"
notFound(id) == MkResp("notFound", 404, <<"ID not found", id>>, NoBody)
\* invalidJSON(w, logger): the body does not decode
invalidJSON == MkResp("invalidJSON", 400, <<"Unparsable JSON">>, NoBody)
\* invalidData(w, err, logger): failed semantic validation
invalidData(err) == MkResp("invalidData", 400, <<err>>, NoBody)
\* Error(w, http.StatusInternalServerError, msg, logger) and unknownErrorWithMessage
serverError(msg) == MkResp("serverError", 500, <<msg>>, NoBody)
\* encodeJSON(w, code, res, logger)
encodeJSON(code, res) == MkResp("ok", code, << >>, res)
\* w.WriteHeader(http.StatusNoContent)
noContent == MkResp("ok", 204, << >>, NoBody)


\* Mutant of newKapacitor: the password is copied with the other fields.
newKapacitorWithPassword(srv) ==
    [ID |-> srv.ID, Name |-> srv.Name, URL |-> srv.URL,
     Username |-> srv.Username, Password |-> srv.Password, Active |-> srv.Active,
     Links |-> [Self |-> <<"/chronograf/v1/sources", srv.SrcID, "kapacitors", srv.ID>>,
                Proxy |-> <<"/chronograf/v1/sources", srv.SrcID, "kapacitors", srv.ID, "proxy">>,
                Rules |-> <<"/chronograf/v1/sources", srv.SrcID, "kapacitors", srv.ID, "rules">>]]

\* newKapacitor(srv): Password is not copied and stays the zero value.
newKapacitor(srv) ==
    [ID |-> srv.ID, Name |-> srv.Name, URL |-> srv.URL,
     Username |-> srv.Username, Password |-> "", Active |-> srv.Active,
     Links |-> [Self |-> <<"/chronograf/v1/sources", srv.SrcID, "kapacitors", srv.ID>>,
                Proxy |-> <<"/chronograf/v1/sources", srv.SrcID, "kapacitors", srv.ID, "proxy">>,
                Rules |-> <<"/chronograf/v1/sources", srv.SrcID, "kapacitors", srv.ID, "rules">>]]

\* ---------------------------------------------------------- servers store

\* Mutant of InScope: the owner check srv.SrcID != srcID is dropped.
InScopeAnySource(store, id, srcID) == id \in DOMAIN store

\* srv, err := h.ServersStore.Get(ctx, id); err != nil || srv.SrcID != srcID
\* is the negation of InScope.
InScope(store, id, srcID) ==
    /\ id \in DOMAIN store
    /\ store[id].SrcID = srcID

\* h.ServersStore.All: the stored servers in key order, with ids i..n.
RECURSIVE StoreAll(_, _, _)
StoreAll(store, i, n) ==
    IF i > n THEN << >>
    ELSE (IF i \in DOMAIN store THEN <<store[i]>> ELSE << >>) \o StoreAll(store, i + 1, n)

\* h.ServersStore.Add: the store assigns the next id of its sequence.
StoreAdd(store, id, srv) == (id :> [srv EXCEPT !.ID = id]) @@ store

\* h.ServersStore.Delete
StoreDelete(store, id) == [i \in DOMAIN store \ {id} |-> store[i]]

\* h.ServersStore.Update
StoreUpdate(store, srv) == [store EXCEPT ![srv.ID] = srv]

\* ---------------------------------------------------------- remote engine

\* One remote call, as logged in calls.
Call(url, op, tid) == [url |-> url, op |-> op, tid |-> tid]

\* The TICKscript the engine derives from a rule (opaque text).
Tick(r) == <<"tick", r.Name, r.Every>>

\* kapa.Client.Get: the rule of task tid on the client's engine, or
\* chronograf.ErrAlertNotFound.
ClientGet(eng, url, tid) ==
    IF tid \in DOMAIN eng[url]
    THEN [err |-> "nil", Rule |-> eng[url][tid].Rule]
    ELSE [err |-> "ErrAlertNotFound", Rule |-> NoBody]

\* kapa.Client.Create: the engine stores the rule under a fresh id, enabled.
EngineCreate(eng, url, tid, r) ==
    [eng EXCEPT ![url] = (tid :> [Rule |-> [r EXCEPT !.ID = tid], Status |-> "enabled"]) @@ @]

\* kapa.Client.Update: the rule replaces the task's definition.
EngineUpdate(eng, url, tid, r) ==
    [eng EXCEPT ![url][tid].Rule = r]

\* kapa.Client.Enable / Disable
EngineSetStatus(eng, url, tid, status) ==
    [eng EXCEPT ![url][tid].Status = status]

\* kapa.Client.Delete
EngineDelete(eng, url, tid) ==
    [eng EXCEPT ![url] = [t \in DOMAIN @ \ {tid} |-> @[t]]]

\* c.All: the rules of the engine's tasks in listing order, from the i-th
\* task id on.
RECURSIVE ClientAll(_, _)
ClientAll(eng, i) ==
    IF i > Len(TaskIDs) THEN << >>
    ELSE (IF TaskIDs[i] \in DOMAIN eng THEN <<eng[TaskIDs[i]].Rule>> ELSE << >>)
         \o ClientAll(eng, i + 1)

\* c.AllStatus: task id -> status
ClientAllStatus(eng) == [t \in DOMAIN eng |-> eng[t].Status]

\* The status map c.AllStatus answers when the engine reports no status for
\* the tasks in unlisted (tasks it knows but has not scheduled).
StatusListing(eng, unlisted) ==
    [t \in DOMAIN eng \ unlisted |-> ClientAllStatus(eng)[t]]

\* A transport failure of a remote call.
RemoteUnavailable == "remote unavailable"

\* --------------------------------------------------------------- handlers
\* Each handler is an operator from the state st and the decoded request to
\* Out(state left, response written, remote calls issued).  fault is the
\* environment's choice for the request: for an instance handler, 1 when
\* the store operation (Add, All, Delete, Update) fails; for a rule handler,
\* the position (1 or 2) of the remote call that fails in transport; 0 when
\* nothing fails.  unlisted, for the rule listing, is the set of task ids the
\* engine's status listing leaves out.

\* Mutant of SourceExists: the error of the source lookup is ignored.
SourceExistsIgnored(srcID) == TRUE

\* _, err = h.SourcesStore.Get(ctx, srcID); err == nil
SourceExists(srcID) == srcID \in Sources

\* The chronograf.Server NewKapacitor builds from the request.
ServerOf(srcID, body) ==
    [ID |-> 0, SrcID |-> srcID, Name |-> body.Name.v,
     Username |-> body.Username, Password |-> body.Password,
     URL |-> body.URL.v, Active |-> body.Active]

\* POST /sources/:id/kapacitors
NewKapacitor(st, srcID, body, fault) ==
    IF ~SourceExists(srcID) THEN Out(st, notFound(srcID), << >>)
    ELSE IF body.malformed THEN Out(st, invalidJSON, << >>)
    ELSE IF PostValid(body) # "nil" THEN Out(st, invalidData(PostValid(body)), << >>)
    ELSE IF fault = 1 THEN Out(st, serverError("Error storing kapacitor"), << >>)
    ELSE LET added == StoreAdd(st.servers, st.nextID, ServerOf(srcID, body))
         IN Out([st EXCEPT !.servers = added, !.nextID = @ + 1],
                encodeJSON(201, newKapacitor(added[st.nextID])), << >>)


\* Mutant of FilterBySource: the test srv.SrcID == srcID is dropped.
FilterBySourceKeepsAll(srvs, srcID) == [i \in DOMAIN srvs |-> newKapacitor(srvs[i])]

\* The loop of Kapacitors over mrSrvs: the representations of the servers
\* of source srcID, in store order.
RECURSIVE FilterBySource(_, _)
FilterBySource(srvs, srcID) ==
    IF srvs = << >> THEN << >>
    ELSE (IF Head(srvs).SrcID = srcID THEN <<newKapacitor(Head(srvs))>> ELSE << >>)
         \o FilterBySource(Tail(srvs), srcID)

\* GET /sources/:id/kapacitors
Kapacitors(st, srcID, fault) ==
    IF fault = 1 THEN Out(st, serverError("Error loading kapacitors"), << >>)
    ELSE Out(st,
             encodeJSON(200,
                 [Kapacitors |->
                     MkSlice(FilterBySource(StoreAll(st.servers, 1, st.nextID - 1), srcID))]),
             << >>)

\* GET /sources/:id/kapacitors/:kid
KapacitorsID(st, srcID, id) ==
    IF ~InScope(st.servers, id, srcID) THEN Out(st, notFound(id), << >>)
    ELSE Out(st, encodeJSON(200, newKapacitor(st.servers[id])), << >>)


\* Mutant of RemoveKapacitor: the instance is answered as deleted but stays
\* in the store.
RemoveKapacitorKeeps(st, srcID, id, fault) ==
    IF ~InScope(st.servers, id, srcID) THEN Out(st, notFound(id), << >>)
    ELSE Out(st, noContent, << >>)

\* DELETE /sources/:id/kapacitors/:kid
RemoveKapacitor(st, srcID, id, fault) ==
    IF ~InScope(st.servers, id, srcID) THEN Out(st, notFound(id), << >>)
    ELSE IF fault = 1 THEN Out(st, serverError("store"), << >>)
    ELSE Out([st EXCEPT !.servers = StoreDelete(@, id)], noContent, << >>)


\* Mutant of MergePatch: every field is assigned from the request, an absent
\* one as its zero value.
MergePatchOverwrites(srv, body) ==
    [srv EXCEPT !.Name = body.Name.v, !.URL = body.URL.v,
                !.Password = body.Password.v, !.Username = body.Username.v,
                !.Active = body.Active.v]

\* The field-by-field merge of UpdateKapacitor.
MergePatch(srv, body) ==
    LET s1 == IF ~body.Name.nil THEN [srv EXCEPT !.Name = body.Name.v] ELSE srv
        s2 == IF ~body.URL.nil THEN [s1 EXCEPT !.URL = body.URL.v] ELSE s1
        s3 == IF ~body.Password.nil THEN [s2 EXCEPT !.Password = body.Password.v] ELSE s2
        s4 == IF ~body.Username.nil THEN [s3 EXCEPT !.Username = body.Username.v] ELSE s3
    IN IF ~body.Active.nil THEN [s4 EXCEPT !.Active = body.Active.v] ELSE s4

\* PATCH /sources/:id/kapacitors/:kid
UpdateKapacitor(st, srcID, id, body, fault) ==
    IF ~InScope(st.servers, id, srcID) THEN Out(st, notFound(id), << >>)
    ELSE IF body.malformed THEN Out(st, invalidJSON, << >>)
    ELSE IF PatchValid(body) # "nil" THEN Out(st, invalidData(PatchValid(body)), << >>)
    ELSE LET srv == MergePatch(st.servers[id], body)
         IN IF fault = 1 THEN Out(st, serverError("Error updating kapacitor ID"), << >>)
            ELSE Out([st EXCEPT !.servers = StoreUpdate(@, srv)],
                     encodeJSON(200, newKapacitor(srv)), << >>)

\* Mutant of NewClient: one process-wide client, bound to the first engine.
NewClientShared(srv) == <<"http", ":", "/", "/", "e1">>

\* c := kapa.NewClient(srv.URL, srv.Username, srv.Password): the client is
\* bound to the engine at the instance's URL.
NewClient(srv) == srv.URL

\* Mutant of TaskNotFound: the response says that it is the task that is
\* missing.
TaskNotFoundNamesTask(id, tid) == MkResp("notFound", 404, <<"task not found", id>>, NoBody)

\* err == chronograf.ErrAlertNotFound: notFound(w, id, h.Logger), with the
\* kapacitor id, not the task id.
TaskNotFound(id, tid) == notFound(id)

\* POST /sources/:id/kapacitors/:kid/rules
KapacitorRulesPost(st, srcID, id, body, fault) ==
    IF ~InScope(st.servers, id, srcID) THEN Out(st, notFound(id), << >>)
    ELSE LET srv == st.servers[id]
             c == NewClient(srv)
             tid == TaskIDs[st.nextTid]
             created == EngineCreate(st.engines, c, tid, body.rule)
             task == created[c][tid]
         IN IF body.malformed THEN Out(st, invalidJSON, << >>)
            ELSE IF fault = 1
            THEN Out(st, serverError(RemoteUnavailable), <<Call(c, "Create", "")>>)
            ELSE Out([st EXCEPT !.engines = created, !.nextTid = @ + 1],
                     encodeJSON(201,
                         newAlertResponse(task.Rule, Tick(task.Rule), Href(tid),
                             HrefOutput(tid), "enabled", srv.SrcID, srv.ID)),
                     <<Call(c, "Create", "")>>)

\* Mutant of ForceID: the id of the body is kept.
ForceIDKeepsBody(r, tid) == r

\* req.ID = tid
ForceID(r, tid) == [r EXCEPT !.ID = tid]

\* PUT /sources/:id/kapacitors/:kid/rules/:tid
KapacitorRulesPut(st, srcID, id, tid, body, fault) ==
    IF ~InScope(st.servers, id, srcID) THEN Out(st, notFound(id), << >>)
    ELSE LET srv == st.servers[id]
             c == NewClient(srv)
             got == ClientGet(st.engines, c, tid)
             updated == EngineUpdate(st.engines, c, tid, ForceID(body.rule, tid))
             task == updated[c][tid]
         IN IF body.malformed THEN Out(st, invalidJSON, << >>)
            ELSE IF fault = 1
            THEN Out(st, serverError(RemoteUnavailable), <<Call(c, "Get", tid)>>)
            ELSE IF got.err = "ErrAlertNotFound"
            THEN Out(st, TaskNotFound(id, tid), <<Call(c, "Get", tid)>>)
            ELSE IF fault = 2
            THEN Out(st, serverError(RemoteUnavailable),
                     <<Call(c, "Get", tid), Call(c, "Update", tid)>>)
            ELSE Out([st EXCEPT !.engines = updated],
                     encodeJSON(200,
                         newAlertResponse(task.Rule, Tick(task.Rule), Href(tid),
                             HrefOutput(tid), "enabled", srv.SrcID, srv.ID)),
                     <<Call(c, "Get", tid), Call(c, "Update", tid)>>)


\* Mutant of StatusCall: the branch on req.Status is lost, Disable is always
\* called.
StatusCallDisables(status) == "Disable"

\* if req.Status == "enabled" { c.Enable } else { c.Disable }
StatusCall(status) == IF status = "enabled" THEN "Enable" ELSE "Disable"
\* The task status the call op (Enable or Disable) leaves on the engine.
StatusAfter(op) == IF op = "Enable" THEN "enabled" ELSE "disabled"

\* PATCH /sources/:id/kapacitors/:kid/rules/:tid
KapacitorRulesStatus(st, srcID, id, tid, body, fault) ==
    IF ~InScope(st.servers, id, srcID) THEN Out(st, notFound(id), << >>)
    ELSE LET srv == st.servers[id]
             c == NewClient(srv)
             got == ClientGet(st.engines, c, tid)
             op == StatusCall(body.Status)
         IN IF body.malformed THEN Out(st, invalidJSON, << >>)
            ELSE IF StatusValid(body.Status) # "nil"
            THEN Out(st, invalidData(StatusValid(body.Status)), << >>)
            ELSE IF fault = 1
            THEN Out(st, serverError(RemoteUnavailable), <<Call(c, "Get", tid)>>)
            ELSE IF got.err = "ErrAlertNotFound"
            THEN Out(st, TaskNotFound(id, tid), <<Call(c, "Get", tid)>>)
            ELSE IF fault = 2
            THEN Out(st, serverError(RemoteUnavailable),
                     <<Call(c, "Get", tid), Call(c, op, tid)>>)
            ELSE Out([st EXCEPT !.engines =
                            EngineSetStatus(@, c, tid, StatusAfter(op))],
                     encodeJSON(200,
                         newAlertResponse(got.Rule, Tick(got.Rule), Href(tid),
                             HrefOutput(tid), body.Status, srv.SrcID, srv.ID)),
                     <<Call(c, "Get", tid), Call(c, op, tid)>>)

\* Mutant of MergeStatuses: a rule without a status is reported, with an
\* empty status, instead of skipped.
RECURSIVE MergeStatusesKeepsAll(_, _, _, _)
MergeStatusesKeepsAll(rules, statuses, srcID, kapaID) ==
    IF rules = << >> THEN << >>
    ELSE LET r == Head(rules)
         IN <<newAlertResponse(r, Tick(r), Href(r.ID), HrefOutput(r.ID),
                               IF r.ID \in DOMAIN statuses THEN statuses[r.ID] ELSE "",
                               srcID, kapaID)>>
            \o MergeStatusesKeepsAll(Tail(rules), statuses, srcID, kapaID)

\* The loop of KapacitorRulesGet over the listed rules.
RECURSIVE MergeStatuses(_, _, _, _)
MergeStatuses(rules, statuses, srcID, kapaID) ==
    IF rules = << >> THEN << >>
    ELSE LET r == Head(rules)
         IN (IF r.ID \notin DOMAIN statuses THEN << >>
             ELSE <<newAlertResponse(r, Tick(r), Href(r.ID), HrefOutput(r.ID),
                                     statuses[r.ID], srcID, kapaID)>>)
            \o MergeStatuses(Tail(rules), statuses, srcID, kapaID)

\* GET /sources/:id/kapacitors/:kid/rules
KapacitorRulesGet(st, srcID, id, fault, unlisted) ==
    IF ~InScope(st.servers, id, srcID) THEN Out(st, notFound(id), << >>)
    ELSE LET srv == st.servers[id]
             c == NewClient(srv)
         IN IF fault = 1
            THEN Out(st, serverError(RemoteUnavailable), <<Call(c, "All", "")>>)
            ELSE IF fault = 2
            THEN Out(st, serverError(RemoteUnavailable),
                     <<Call(c, "All", ""), Call(c, "AllStatus", "")>>)
            ELSE Out(st,
                     encodeJSON(200,
                         [Rules |-> MkSlice(MergeStatuses(ClientAll(st.engines[c], 1),
                                        StatusListing(st.engines[c], unlisted),
                                        srv.SrcID, srv.ID))]),
                     <<Call(c, "All", ""), Call(c, "AllStatus", "")>>)

\* GET /sources/:id/kapacitors/:kid/rules/:tid
KapacitorRulesID(st, srcID, id, tid, fault) ==
    IF ~InScope(st.servers, id, srcID) THEN Out(st, notFound(id), << >>)
    ELSE LET srv == st.servers[id]
             c == NewClient(srv)
             got == ClientGet(st.engines, c, tid)
         IN IF fault = 1
            THEN Out(st, serverError(RemoteUnavailable), <<Call(c, "Get", tid)>>)
            ELSE IF got.err = "ErrAlertNotFound"
            THEN Out(st, TaskNotFound(id, tid), <<Call(c, "Get", tid)>>)
            ELSE IF fault = 2
            THEN Out(st, serverError(RemoteUnavailable),
                     <<Call(c, "Get", tid), Call(c, "Status", got.Rule.ID)>>)
            ELSE Out(st,
                     encodeJSON(200,
                         newAlertResponse(got.Rule, Tick(got.Rule), Href(got.Rule.ID),
                             HrefOutput(got.Rule.ID),
                             st.engines[c][got.Rule.ID].Status, srv.SrcID, srv.ID)),
                     <<Call(c, "Get", tid), Call(c, "Status", got.Rule.ID)>>)


\* Mutant of KapacitorRulesDelete: Delete is issued without the Get before it.
KapacitorRulesDeleteUnchecked(st, srcID, id, tid, fault) ==
    IF ~InScope(st.servers, id, srcID) THEN Out(st, notFound(id), << >>)
    ELSE LET c == NewClient(st.servers[id])
         IN IF fault # 0
            THEN Out(st, serverError(RemoteUnavailable), <<Call(c, "Delete", tid)>>)
            ELSE Out([st EXCEPT !.engines = EngineDelete(@, c, tid)], noContent,
                     <<Call(c, "Delete", tid)>>)

\* DELETE /sources/:id/kapacitors/:kid/rules/:tid
KapacitorRulesDelete(st, srcID, id, tid, fault) ==
    IF ~InScope(st.servers, id, srcID) THEN Out(st, notFound(id), << >>)
    ELSE LET srv == st.servers[id]
             c == NewClient(srv)
             got == ClientGet(st.engines, c, tid)
         IN IF fault = 1
            THEN Out(st, serverError(RemoteUnavailable), <<Call(c, "Get", tid)>>)
            ELSE IF got.err = "ErrAlertNotFound"
            THEN Out(st, TaskNotFound(id, tid), <<Call(c, "Get", tid)>>)
            ELSE IF fault = 2
            THEN Out(st, serverError(RemoteUnavailable),
                     <<Call(c, "Get", tid), Call(c, "Delete", tid)>>)
            ELSE Out([st EXCEPT !.engines = EngineDelete(@, c, tid)], noContent,
                     <<Call(c, "Get", tid), Call(c, "Delete", tid)>>)

\* --------------------------------------------------------------- requests

MkReq(op, srcID, kid, tid, body, fault) ==
    [op |-> op, srcID |-> srcID, kid |-> kid, tid |-> tid,
     body |-> body, fault |-> fault]

\* The handlers that resolve (source id, kapacitor id) before anything else.
InstanceOps == {"KapacitorsID", "RemoveKapacitor", "UpdateKapacitor"}
RuleOps == {"KapacitorRulesPost", "KapacitorRulesPut", "KapacitorRulesStatus",
            "KapacitorRulesGet", "KapacitorRulesID", "KapacitorRulesDelete"}
ScopedOps == InstanceOps \cup RuleOps

\* The requests enumerated for each handler.
Reqs(op) ==
    CASE op = "NewKapacitor" ->
           {MkReq(op, s, 0, "", b, f) : s \in SrcIDs, b \in PostBodies, f \in 0..1}
      [] op = "Kapacitors" ->
           {MkReq(op, s, 0, "", NoBody, f) : s \in ScopeSrcIDs, f \in 0..1}
      [] op = "KapacitorsID" ->
           {MkReq(op, s, k, "", NoBody, 0) : s \in ScopeSrcIDs, k \in KapaIDs}
      [] op = "RemoveKapacitor" ->
           {MkReq(op, s, k, "", NoBody, f) : s \in ScopeSrcIDs, k \in KapaIDs, f \in 0..1}
      [] op = "UpdateKapacitor" ->
           {MkReq(op, s, k, "", b, f) :
               s \in ScopeSrcIDs, k \in KapaIDs, b \in PatchBodies, f \in 0..1}
      [] op = "KapacitorRulesPost" ->
           {MkReq(op, s, k, "", b, f) :
               s \in ScopeSrcIDs, k \in KapaIDs, b \in RuleReqBodies, f \in 0..1}
      [] op = "KapacitorRulesPut" ->
           {MkReq(op, s, k, t, b, f) :
               s \in ScopeSrcIDs, k \in KapaIDs, t \in ReqTids,
               b \in RuleReqBodies, f \in 0..2}
      [] op = "KapacitorRulesStatus" ->
           {MkReq(op, s, k, t, b, f) :
               s \in ScopeSrcIDs, k \in KapaIDs, t \in ReqTids,
               b \in StatusReqBodies, f \in 0..2}
      [] op = "KapacitorRulesGet" ->
           {[unlisted |-> u] @@ MkReq(op, s, k, "", NoBody, f) :
               s \in ScopeSrcIDs, k \in KapaIDs, f \in 0..2, u \in {{}, ReqTids}}
      [] op = "KapacitorRulesID" ->
           {MkReq(op, s, k, t, NoBody, f) :
               s \in ScopeSrcIDs, k \in KapaIDs, t \in ReqTids, f \in 0..2}
      [] op = "KapacitorRulesDelete" ->
           {MkReq(op, s, k, t, NoBody, f) :
               s \in ScopeSrcIDs, k \in KapaIDs, t \in ReqTids, f \in 0..2}

\* The router: the handler of the request's route, applied to its decoded
\* parameters and body.
Handle(st, rq) ==
    CASE rq.op = "NewKapacitor" -> NewKapacitor(st, rq.srcID, rq.body, rq.fault)
      [] rq.op = "Kapacitors" -> Kapacitors(st, rq.srcID, rq.fault)
      [] rq.op = "KapacitorsID" -> KapacitorsID(st, rq.srcID, rq.kid)
      [] rq.op = "RemoveKapacitor" -> RemoveKapacitor(st, rq.srcID, rq.kid, rq.fault)
      [] rq.op = "UpdateKapacitor" ->
           UpdateKapacitor(st, rq.srcID, rq.kid, rq.body, rq.fault)
      [] rq.op = "KapacitorRulesPost" ->
           KapacitorRulesPost(st, rq.srcID, rq.kid, rq.body, rq.fault)
      [] rq.op = "KapacitorRulesPut" ->
           KapacitorRulesPut(st, rq.srcID, rq.kid, rq.tid, rq.body, rq.fault)
      [] rq.op = "KapacitorRulesStatus" ->
           KapacitorRulesStatus(st, rq.srcID, rq.kid, rq.tid, rq.body, rq.fault)
      [] rq.op = "KapacitorRulesGet" ->
           KapacitorRulesGet(st, rq.srcID, rq.kid, rq.fault, rq.unlisted)
      [] rq.op = "KapacitorRulesID" ->
           KapacitorRulesID(st, rq.srcID, rq.kid, rq.tid, rq.fault)
      [] rq.op = "KapacitorRulesDelete" ->
           KapacitorRulesDelete(st, rq.srcID, rq.kid, rq.tid, rq.fault)

\* ---------------------------------------------------------------- actions

\* The program takes the state a handled request leaves.  The ids the store
\* and the engines hand out are capped at MaxServers and MaxTasks.
Step(o) ==
    /\ o.st.nextID <= MaxServers + 1
    /\ o.st.nextTid <= MaxTasks + 1
    /\ servers' = o.st.servers
    /\ nextID' = o.st.nextID
    /\ engines' = o.st.engines
    /\ nextTid' = o.st.nextTid
    /\ UNCHANGED pureVars

NewKapacitorStep == \E rq \in Reqs("NewKapacitor") : Step(Handle(Cur, rq))
KapacitorsStep == \E rq \in Reqs("Kapacitors") : Step(Handle(Cur, rq))
KapacitorsIDStep == \E rq \in Reqs("KapacitorsID") : Step(Handle(Cur, rq))
RemoveKapacitorStep == \E rq \in Reqs("RemoveKapacitor") : Step(Handle(Cur, rq))
UpdateKapacitorStep == \E rq \in Reqs("UpdateKapacitor") : Step(Handle(Cur, rq))
KapacitorRulesPostStep == \E rq \in Reqs("KapacitorRulesPost") : Step(Handle(Cur, rq))
KapacitorRulesPutStep == \E rq \in Reqs("KapacitorRulesPut") : Step(Handle(Cur, rq))
KapacitorRulesStatusStep == \E rq \in Reqs("KapacitorRulesStatus") : Step(Handle(Cur, rq))
KapacitorRulesGetStep == \E rq \in Reqs("KapacitorRulesGet") : Step(Handle(Cur, rq))
KapacitorRulesIDStep == \E rq \in Reqs("KapacitorRulesID") : Step(Handle(Cur, rq))
KapacitorRulesDeleteStep == \E rq \in Reqs("KapacitorRulesDelete") : Step(Handle(Cur, rq))

\* ---------------------------------------------------------- specification

NoRule == MkRule("", "", "", NilQuery, NilSlice, NilSlice)

HandlerInit ==
    /\ servers = EmptyFn
    /\ nextID = 1
    /\ engines = [u \in EngineURLs |-> EmptyFn]
    /\ nextTid = 1

Init ==
    /\ HandlerInit
    /\ rule = NoRule
    /\ called = "none"
    /\ out = NoBody
    /\ workers = NoWorkers

Next ==
    \/ NewKapacitorStep
    \/ KapacitorsStep
    \/ KapacitorsIDStep
    \/ RemoveKapacitorStep
    \/ UpdateKapacitorStep
    \/ KapacitorRulesPostStep
    \/ KapacitorRulesPutStep
    \/ KapacitorRulesStatusStep
    \/ KapacitorRulesGetStep
    \/ KapacitorRulesIDStep
    \/ KapacitorRulesDeleteStep

Spec == Init /\ [][Next]_vars

\* ------------------------------------- specification of the pure functions

\* The alert nodes, fields and rules the pure functions are applied to.
PropertyInputs ==
    {[Name |-> "channel", Args |-> a] : a \in {NilSlice, MkSlice(<<"#ops">>)}}
NodeInputs ==
    {[Name |-> "slack", Args |-> a, Properties |-> ps] :
        a \in {NilSlice, MkSlice(<<"a">>)},
        ps \in {NilSlice} \cup {MkSlice(<<p>>) : p \in PropertyInputs}}
FieldInputs ==
    {MkField("usage", f) : f \in {NilSlice, MakeEmpty, MkSlice(<<"mean">>)}}
TagsInputs == {NilMap, [nil |-> FALSE, m |-> ("host" :> <<"a", "b">>)]}
QueryInputs ==
    {NilQuery} \cup
    {MkQuery(id, fs, g, t) :
        id \in {"", "t1", "q1"},
        fs \in {NilSlice} \cup {MkSlice(s) : s \in SeqUpTo(FieldInputs, MaxFields)},
        g \in {NilSlice, MkSlice(<<"host">>)},
        t \in TagsInputs}
RuleInputs ==
    {MkRule(id, "cpu", every, q, al, ns) :
        id \in {"", "t1"}, every \in {"", "10s"}, q \in QueryInputs,
        al \in {NilSlice, MkSlice(<<"slack", "smtp">>)},
        ns \in {NilSlice} \cup {MkSlice(s) : s \in SeqUpTo(NodeInputs, MaxNodes)}}

InitRule ==
    /\ HandlerInit
    /\ rule \in RuleInputs
    /\ called = "none"
    /\ out = NoBody
    /\ workers = NoWorkers

\* res := newAlertResponse(rule, ...) as KapacitorRulesID calls it for
\* instance 1 of source 1.
CallNewAlertResponse ==
    /\ called' = "newAlertResponse"
    /\ out' = newAlertResponse(rule, Tick(rule), Href(rule.ID), HrefOutput(rule.ID),
                               "enabled", 1, 1)
    /\ UNCHANGED <<rule, workers, handlerVars>>

\* err := ValidRuleRequest(rule)
CallValidRuleRequest ==
    /\ called' = "ValidRuleRequest"
    /\ out' = ValidRuleRequest(rule)
    /\ UNCHANGED <<rule, workers, handlerVars>>

NextRule == CallNewAlertResponse \/ CallValidRuleRequest

SpecRule == InitRule /\ [][NextRule]_vars

\* ----------------------------------------- specification of the rule listing
\* KapacitorRulesGet applied to one instance whose engine holds any tasks
\* among the first MaxListed task ids, each with either rule and status.

ListedTids == {TaskIDs[i] : i \in 1..MaxListed}

\* The tasks an engine can hold: each stored under its own id.
EngineContents ==
    UNION { [T -> [Rule : RuleBodies, Status : {"enabled", "disabled"}]] :
            T \in SUBSET ListedTids }

ListedInstance ==
    [ID |-> 1, SrcID |-> 1, Name |-> "kapa1", Username |-> "", Password |-> "",
     URL |-> URL1, Active |-> FALSE]

NotCalled == [op |-> "none", fault |-> 0, unlisted |-> {}]

InitList ==
    /\ servers = (1 :> ListedInstance)
    /\ nextID = 2
    /\ \E e \in EngineContents :
         engines = [u \in EngineURLs |->
                      IF u = URL1
                      THEN [t \in DOMAIN e |-> [e[t] EXCEPT !.Rule.ID = t]]
                      ELSE EmptyFn]
    /\ nextTid = MaxListed + 1
    /\ rule = NoRule
    /\ called = NotCalled
    /\ out = NoBody
    /\ workers = NoWorkers

\* GET /sources/1/kapacitors/1/rules
CallKapacitorRulesGet ==
    \E f \in 0..2 : \E u \in SUBSET ListedTids :
        /\ called' = [op |-> "KapacitorRulesGet", fault |-> f, unlisted |-> u]
        /\ out' = KapacitorRulesGet(Cur, 1, 1, f, u)
        /\ UNCHANGED <<rule, workers, handlerVars>>

NextList == CallKapacitorRulesGet

SpecList == InitList /\ [][NextList]_vars


\* ------------------------------- specification of concurrent UpdateKapacitor
\* Two workers handle one UpdateKapacitor request each.  A request is two
\* steps on the store: h.ServersStore.Get with the decoding, validation and
\* merge that follow it on the worker's own copy srv, then
\* h.ServersStore.Update of that copy.  The store runs each of its
\* operations atomically; the steps of the two workers interleave freely.

Workers == {1, 2}

\* The two instances in the store when the requests arrive.
ConcInstance(id) ==
    [ID |-> id, SrcID |-> 1, Name |-> "kapa1", Username |-> "", Password |-> "",
     URL |-> URL1, Active |-> FALSE]

\* Decoded bodies of the concurrent requests: one field each, two fields, a
\* url without scheme, and a body that does not decode.
ConcPatchBodies ==
    { MkPatch(Ptr("kapa2"), NilURL, NilPtr, NilPtr, NilBool),
      MkPatch(NilPtr, NilURL, NilPtr, NilPtr, Ptr(TRUE)),
      MkPatch(NilPtr, Ptr(URL2), NilPtr, NilPtr, NilBool),
      MkPatch(NilPtr, NilURL, Ptr("u"), Ptr("p"), NilBool),
      MkPatch(NilPtr, Ptr(NoSchemeURL), NilPtr, NilPtr, NilBool),
      [MkPatch(NilPtr, NilURL, NilPtr, NilPtr, NilBool) EXCEPT !.malformed = TRUE] }

NoResp == MkResp("none", 0, << >>, NoBody)

\* A worker about to handle PATCH /sources/srcID/kapacitors/id with body.
MkWorker(srcID, id, body) ==
    [srcID |-> srcID, id |-> id, body |-> body,
     pc |-> "start", srv |-> ConcInstance(id), resp |-> NoResp]

InitConc ==
    /\ servers = [i \in {1, 2} |-> ConcInstance(i)]
    /\ nextID = 3
    /\ engines = [u \in EngineURLs |-> EmptyFn]
    /\ nextTid = 1
    /\ rule = NoRule
    /\ called = "none"
    /\ out = NoBody
    /\ workers \in [Workers -> {MkWorker(s, i, b) :
                       s \in ScopeSrcIDs, i \in {1, 2}, b \in ConcPatchBodies}]

\* The worker answers rs and is done.
Answer(w, rs) == workers' = [workers EXCEPT ![w].pc = "done", ![w].resp = rs]

\* UpdateKapacitor up to the call of h.ServersStore.Update: the store's Get
\* with the scope check, the decoding and validation of the body, and the
\* merge of the present fields into the worker's copy of the server.
UpdateKapacitorGet(w) ==
    LET me == workers[w]
    IN /\ me.pc = "start"
       /\ IF ~InScope(servers, me.id, me.srcID) THEN Answer(w, notFound(me.id))
          ELSE IF me.body.malformed THEN Answer(w, invalidJSON)
          ELSE IF PatchValid(me.body) # "nil"
          THEN Answer(w, invalidData(PatchValid(me.body)))
          ELSE workers' = [workers EXCEPT ![w].pc = "merged",
                                          ![w].srv = MergePatch(servers[me.id], me.body)]
       /\ UNCHANGED <<rule, called, out, handlerVars>>

\* The rest of UpdateKapacitor: h.ServersStore.Update writes the worker's
\* copy of the server, or fails, and the response is written.
UpdateKapacitorStore(w) ==
    LET me == workers[w]
    IN /\ me.pc = "merged"
       /\ \E fault \in 0..1 :
            IF fault = 1
            THEN /\ Answer(w, serverError("Error updating kapacitor ID"))
                 /\ UNCHANGED servers
            ELSE /\ servers' = StoreUpdate(servers, me.srv)
                 /\ Answer(w, encodeJSON(200, newKapacitor(me.srv)))
       /\ UNCHANGED <<rule, called, out, nextID, engines, nextTid>>

NextConc == \E w \in Workers : UpdateKapacitorGet(w) \/ UpdateKapacitorStore(w)

SpecConc == InitConc /\ [][NextConc]_vars

\* ------------------------------------------------- claims on pure functions

\* C3: newAlertResponse never returns a nil container: alerts and alertNodes
\* are non-nil for every rule, and for a rule with a query so are
\* query.fields, query.groupBy.tags and query.tags; each holds exactly the
\* elements of the input, in order (none when the input was nil).
C3_ContainersNeverNil ==
    called = "newAlertResponse" =>
        /\ ~out.Alerts.nil
        /\ out.Alerts.elems = rule.Alerts.elems
        /\ ~out.AlertNodes.nil
        /\ out.AlertNodes.elems = rule.AlertNodes.elems
        /\ out.Query.nil = rule.Query.nil
        /\ ~rule.Query.nil =>
             /\ ~out.Query.Fields.nil
             /\ out.Query.Fields.elems = rule.Query.Fields.elems
             /\ ~out.Query.GroupByTags.nil
             /\ out.Query.GroupByTags.elems = rule.Query.GroupByTags.elems
             /\ ~out.Query.Tags.nil
             /\ out.Query.Tags.m = rule.Query.Tags.m

\* C3 witness: a rule with a query and every container nil went through
\* newAlertResponse and came out with empty containers.
C3_Witness ==
    /\ called = "newAlertResponse"
    /\ rule.Alerts.nil /\ rule.AlertNodes.nil
    /\ ~rule.Query.nil
    /\ rule.Query.Fields.nil /\ rule.Query.GroupByTags.nil /\ rule.Query.Tags.nil
    /\ out.Alerts = MakeEmpty /\ out.AlertNodes = MakeEmpty
    /\ out.Query.Fields = MakeEmpty /\ out.Query.Tags = MakeMap

\* C4 (as claimed): in the result of newAlertResponse every alert node has
\* non-nil args and properties, every property of a node has non-nil args,
\* and every query field has non-nil funcs.
C4_NestedNeverNil ==
    called = "newAlertResponse" =>
        /\ \A i \in DOMAIN out.AlertNodes.elems :
             LET n == out.AlertNodes.elems[i]
             IN /\ ~n.Args.nil
                /\ ~n.Properties.nil
                /\ \A j \in DOMAIN n.Properties.elems : ~n.Properties.elems[j].Args.nil
        /\ ~out.Query.nil =>
             \A i \in DOMAIN out.Query.Fields.elems :
                 ~out.Query.Fields.elems[i].Funcs.nil

\* C5: for a rule with a query, the returned query.id is the rule id exactly
\* when the input query.id was empty or already the rule id; a non-empty
\* input query.id is returned as it was.
C5_QueryIDDefault ==
    (called = "newAlertResponse" /\ ~rule.Query.nil) =>
        /\ out.ID = rule.ID
        /\ (out.Query.ID = rule.ID) <=> (rule.Query.ID = "" \/ rule.Query.ID = rule.ID)
        /\ rule.Query.ID # "" => out.Query.ID = rule.Query.ID

\* C5 witness: a query with an empty id under the rule named t1 went through
\* newAlertResponse and came out with the rule's id.
C5_Witness ==
    /\ called = "newAlertResponse"
    /\ ~rule.Query.nil
    /\ rule.ID = "t1"
    /\ rule.Query.ID = ""
    /\ out.Query.ID = "t1"

\* Some field of the rule's query has a non-empty funcs sequence.
SomeFieldAggregates(r) ==
    \E i \in 1..Len(r.Query.Fields.elems) : r.Query.Fields.elems[i].Funcs.elems # << >>

\* C6: ValidRuleRequest returns an error exactly when the rule has no query,
\* or every is empty and some field has a non-empty funcs sequence.
C6_ValidRuleRequest ==
    called = "ValidRuleRequest" =>
        ((out # "nil") <=>
            (rule.Query.nil \/ (rule.Every = "" /\ SomeFieldAggregates(rule))))

\* C6 witness: a rule whose second field alone aggregates, with every empty,
\* was rejected.
C6_Witness ==
    /\ called = "ValidRuleRequest"
    /\ ~rule.Query.nil
    /\ rule.Every = ""
    /\ Len(rule.Query.Fields.elems) = 2
    /\ rule.Query.Fields.elems[1].Funcs.elems = << >>
    /\ rule.Query.Fields.elems[2].Funcs.elems # << >>
    /\ out # "nil"

\* ----------------------------------------------------- claims on handlers

\* The response is the not-found response for kapacitor id.
IsNotFound(rs, id) ==
    /\ rs.kind = "notFound"
    /\ rs.code = 404
    /\ rs.msg = <<"ID not found", id>>

\* The request names a stored instance together with its own source.
Owned(rq) ==
    /\ rq.kid \in DOMAIN servers
    /\ servers[rq.kid].SrcID = rq.srcID

\* The state with instance id removed from the store.
Without(id) == [Cur EXCEPT !.servers = [i \in DOMAIN servers \ {id} |-> servers[i]]]

\* C1: in every handler that addresses an instance, a request naming a stored
\* instance with its own source passes scope resolution; naming it with
\* another source it gets the not-found response, with no remote call and no
\* change of state, and that is the response the same request gets when the
\* instance is not in the store at all.
C1_ScopeResolution ==
    \A op \in ScopedOps : \A rq \in Reqs(op) :
        LET o == Handle(Cur, rq)
            absent == Handle(Without(rq.kid), rq)
        IN /\ Owned(rq) => ~(o.resp.kind = "notFound" /\ o.calls = << >>)
           /\ (Owned(rq) /\ op \in InstanceOps) => o.resp.kind # "notFound"
           /\ ~Owned(rq) =>
                /\ IsNotFound(o.resp, rq.kid)
                /\ o.calls = << >>
                /\ o.st = Cur
                /\ IsNotFound(absent.resp, rq.kid)
                /\ absent.calls = o.calls

\* C1 witness: an instance is stored; fetching it, and a rule through it,
\* under another source answers not-found, under its own source the instance
\* is returned; and some kapacitor id is not in the store.
C1_Witness ==
    \E k \in DOMAIN servers : \E s \in ScopeSrcIDs \ {servers[k].SrcID} :
        /\ IsNotFound(KapacitorsID(Cur, s, k).resp, k)
        /\ IsNotFound(KapacitorRulesID(Cur, s, k, TaskIDs[1], 0).resp, k)
        /\ KapacitorsID(Cur, servers[k].SrcID, k).resp.kind = "ok"
        /\ KapaIDs \ DOMAIN servers # {}

\* The rule request rq is addressed through stored instance b, in scope.
Through(rq, b) == rq.kid = b /\ rq.srcID = servers[b].SrcID

\* Create a rule through instance a, then fetch the created task through b.
FetchAfterCreate(a, b, r) ==
    LET o1 == KapacitorRulesPost(Cur, servers[a].SrcID, a,
                                 [malformed |-> FALSE, rule |-> r], 0)
    IN KapacitorRulesID(o1.st, servers[b].SrcID, b, TaskIDs[nextTid], 0)

AggregatesWithoutWindow(r) ==
    /\ r.Every = ""
    /\ ~r.Query.nil
    /\ \E i \in 1..Len(r.Query.Fields.elems) : r.Query.Fields.elems[i].Funcs.elems # << >>

\* C7 (as claimed): a create or replace request whose rule has every empty
\* and a field with funcs is rejected without any remote call and leaves
\* the engines as they were.
C7_RejectedLocally ==
    \A op \in {"KapacitorRulesPost", "KapacitorRulesPut"} : \A rq \in Reqs(op) :
        (~rq.body.malformed /\ AggregatesWithoutWindow(rq.body.rule)) =>
            LET o == Handle(Cur, rq)
            IN /\ o.resp.kind # "ok"
               /\ o.calls = << >>
               /\ o.st.engines = engines

\* The operations of the remote calls issued, in order.
CallOps(o) == [i \in DOMAIN o.calls |-> o.calls[i].op]

\* C8: KapacitorStatus.Valid accepts exactly enabled and disabled; a status
\* request with another value is rejected with no remote call and no change;
\* enabled leads to Get then Enable, disabled to Get then Disable, never
\* the other one, and a successful request leaves the task in that status.
C8_StatusValidated ==
    /\ \A s \in StatusBodies : (StatusValid(s) = "nil") <=> (s \in {"enabled", "disabled"})
    /\ \A rq \in Reqs("KapacitorRulesStatus") :
         ~rq.body.malformed =>
           LET o == Handle(Cur, rq)
               s == rq.body.Status
               other == IF s = "enabled" THEN "Disable" ELSE "Enable"
               mine == IF s = "enabled" THEN "Enable" ELSE "Disable"
           IN IF s \notin {"enabled", "disabled"}
              THEN /\ o.calls = << >>
                   /\ o.st = Cur
                   /\ o.resp.kind # "ok"
                   /\ Owned(rq) => o.resp.kind = "invalidData"
              ELSE /\ \A i \in DOMAIN o.calls : o.calls[i].op \in {"Get", mine}
                   /\ o.resp.kind = "ok" =>
                        /\ CallOps(o) = <<"Get", mine>>
                        /\ o.st.engines[servers[rq.kid].URL][rq.tid].Status = s

\* C8 witness: a task is reachable through a stored instance; the status
\* paused is rejected for it as invalid data, disabled is carried out by
\* Get then Disable, enabled by Get then Enable.
C8_Witness ==
    \E k \in DOMAIN servers : \E t \in DOMAIN engines[servers[k].URL] :
        LET st(s) == KapacitorRulesStatus(Cur, servers[k].SrcID, k, t,
                                          [malformed |-> FALSE, Status |-> s], 0)
        IN /\ st("paused").resp.kind = "invalidData"
           /\ CallOps(st("disabled")) = <<"Get", "Disable">>
           /\ CallOps(st("enabled")) = <<"Get", "Enable">>
           /\ st("disabled").st.engines[servers[k].URL][t].Status = "disabled"

\* The raw url starts with a scheme: a word followed by ":".
HasScheme(raw) == Len(raw) >= 2 /\ raw[1] \notin {":", "/"} /\ raw[2] = ":"

\* The body names a non-empty name and a non-empty url with a scheme.
WellFormedInstance(b) ==
    /\ ~b.Name.nil /\ b.Name.v # ""
    /\ ~b.URL.nil /\ b.URL.v # << >>
    /\ HasScheme(b.URL.v)

\* C9 (as claimed): under an existing source NewKapacitor succeeds only for
\* a body with non-empty name and non-empty url with a scheme; any other
\* decodable body is answered as invalid data and leaves the store as it was.
C9_InvalidInstanceRejected ==
    \A rq \in Reqs("NewKapacitor") :
        (rq.srcID \in Sources /\ ~rq.body.malformed) =>
            LET o == Handle(Cur, rq)
            IN /\ o.resp.kind = "ok" => WellFormedInstance(rq.body)
               /\ ~WellFormedInstance(rq.body) =>
                    /\ o.resp.kind = "invalidData"
                    /\ o.st.servers = servers

\* C10: every stored instance carries the id of an existing source; a
\* NewKapacitor request naming a source that does not exist is answered
\* not-found and changes nothing, whatever its body; and a request that
\* adds an instance names an existing source, which the instance carries.
C10_SourceBeforeStore ==
    /\ \A k \in DOMAIN servers : servers[k].SrcID \in Sources
    /\ \A rq \in Reqs("NewKapacitor") :
         LET o == Handle(Cur, rq)
         IN /\ rq.srcID \notin Sources =>
                 /\ o.resp.kind = "notFound"
                 /\ o.resp.msg = <<"ID not found", rq.srcID>>
                 /\ o.st = Cur
            /\ o.st.servers # servers =>
                 /\ rq.srcID \in Sources
                 /\ DOMAIN o.st.servers = DOMAIN servers \cup {nextID}
                 /\ o.st.servers[nextID].SrcID = rq.srcID

\* C10 witness: an instance has been added under an existing source, and a
\* valid body sent to the missing source 3 is answered not-found.
C10_Witness ==
    /\ \E k \in DOMAIN servers : servers[k].SrcID \in Sources
    /\ 3 \notin Sources
    /\ NewKapacitor(Cur, 3, MkPost(Ptr("kapa1"), Ptr(URL1), "", "", FALSE), 0).resp.kind
           = "notFound"

\* The position of task id t in the engine's listing order.
Pos(t) == CHOOSE i \in DOMAIN TaskIDs : TaskIDs[i] = t

\* C14: listing rules issues All then AllStatus on the instance's engine and
\* nothing else; the response holds, in listing order, exactly the listed
\* tasks whose id is a key of the status map, each once, each with the status
\* the map gives and built from the listed rule; tasks missing from the map
\* are left out and the request still succeeds; when either listing fails
\* the response is a server error without rules, the second listing not
\* being issued when the first failed; the state is left as it was.
C14_RuleListingMerge ==
    called.op = "KapacitorRulesGet" =>
        LET eng == engines[servers[1].URL]
            kept == DOMAIN eng \ called.unlisted
            ops == [i \in DOMAIN out.calls |-> out.calls[i].op]
        IN /\ out.st = Cur
           /\ \A i \in DOMAIN out.calls : out.calls[i].url = servers[1].URL
           /\ called.fault = 1 =>
                /\ ops = <<"All">>
                /\ out.resp.kind = "serverError" /\ out.resp.body = NoBody
           /\ called.fault = 2 =>
                /\ ops = <<"All", "AllStatus">>
                /\ out.resp.kind = "serverError" /\ out.resp.body = NoBody
           /\ called.fault = 0 =>
                /\ ops = <<"All", "AllStatus">>
                /\ out.resp.kind = "ok" /\ out.resp.code = 200
                /\ ~out.resp.body.Rules.nil
                /\ LET rs == out.resp.body.Rules.elems
                   IN /\ {rs[i].ID : i \in DOMAIN rs} = kept
                      /\ Len(rs) = Cardinality(kept)
                      /\ \A i \in DOMAIN rs : \A j \in DOMAIN rs :
                             i < j => Pos(rs[i].ID) < Pos(rs[j].ID)
                      /\ \A i \in DOMAIN rs :
                             /\ rs[i].Status = eng[rs[i].ID].Status
                             /\ rs[i].Name = eng[rs[i].ID].Rule.Name
                             /\ rs[i].Every = eng[rs[i].ID].Rule.Every

\* C14 witness: the engine holds two tasks, the status map lacks the first,
\* and the listing succeeded with the second task alone, disabled as the
\* map says.
C14_Witness ==
    /\ called.op = "KapacitorRulesGet" /\ called.fault = 0
    /\ DOMAIN engines[URL1] = {TaskIDs[1], TaskIDs[2]}
    /\ called.unlisted = {TaskIDs[1]}
    /\ engines[URL1][TaskIDs[2]].Status = "disabled"
    /\ out.resp.kind = "ok"
    /\ Len(out.resp.body.Rules.elems) = 1
    /\ out.resp.body.Rules.elems[1].ID = TaskIDs[2]
    /\ out.resp.body.Rules.elems[1].Status = "disabled"

\* -------------------------------------------- claims on the instance store

\* Patch bodies with every combination of present and absent fields, all
\* with a url that is valid when present.
PatchInputs ==
    { MkPatch(n, u, us, pw, a) :
        n \in {NilPtr, Ptr("kapa2")}, u \in {NilURL, Ptr(URL1), Ptr(URL2)},
        us \in {NilPtr, Ptr("admin")}, pw \in {NilPtr, Ptr("secret")},
        a \in {NilBool, Ptr(TRUE), Ptr(FALSE)} }

\* The value a field has after a patch: the supplied one when present.
Patched(ptr, old) == IF ptr.nil THEN old ELSE ptr.v

\* C11: a successful UpdateKapacitor changes, in the stored instance, only
\* the fields present in the request, each to the supplied value; absent
\* fields, the id and the source id keep their value, no other instance is
\* touched, and the response shows the merged instance.
C11_PartialMerge ==
    \A k \in DOMAIN servers : \A b \in PatchInputs :
        LET old == servers[k]
            o == UpdateKapacitor(Cur, old.SrcID, k, b, 0)
            new == o.st.servers[k]
        IN /\ o.resp.kind = "ok"
           /\ DOMAIN o.st.servers = DOMAIN servers
           /\ \A j \in DOMAIN servers \ {k} : o.st.servers[j] = servers[j]
           /\ new.ID = old.ID /\ new.ID = k
           /\ new.SrcID = old.SrcID
           /\ new.Name = Patched(b.Name, old.Name)
           /\ new.URL = Patched(b.URL, old.URL)
           /\ new.Username = Patched(b.Username, old.Username)
           /\ new.Password = Patched(b.Password, old.Password)
           /\ new.Active = Patched(b.Active, old.Active)
           /\ o.st.nextID = nextID /\ o.st.engines = engines
           /\ o.resp.body.Name = new.Name /\ o.resp.body.URL = new.URL

\* C11 witness: two instances are stored; a patch of the first carrying only
\* a password stores that password, keeps its name, url, username and active
\* flag, and leaves the second as it was.
C11_Witness ==
    /\ DOMAIN servers = {1, 2}
    /\ servers[1].Username = "u" /\ servers[1].Active
    /\ LET o == UpdateKapacitor(Cur, servers[1].SrcID, 1,
                                MkPatch(NilPtr, NilURL, NilPtr, Ptr("secret"), NilBool), 0)
       IN /\ o.resp.kind = "ok"
          /\ o.st.servers[1] = [servers[1] EXCEPT !.Password = "secret"]
          /\ o.st.servers[1] # servers[1]
          /\ o.st.servers[2] = servers[2]

\* Raw urls sent as the url of a create or update request.
URLInputs ==
    { URL1, URL2, NoSchemeURL, RelativeURL, EmptyURL,
      <<":", "/", "/", "e1">>, <<"/", "/", "e1">>, <<"e1", "/", "rules">>,
      <<"https", ":", "/", "/", "e1", "/", "kapacitor">> }

\* C12: every stored instance has a url with a scheme, in every state
\* reached by NewKapacitor, UpdateKapacitor and RemoveKapacitor requests,
\* failed ones included; a create or update request whose url has no scheme
\* is answered as invalid data and leaves the state as it was, while a url
\* with a scheme is accepted and stored.
C12_URLInvariant ==
    /\ \A k \in DOMAIN servers : HasScheme(servers[k].URL)
    /\ \A op \in {"NewKapacitor", "UpdateKapacitor", "RemoveKapacitor"} :
         \A rq \in Reqs(op) :
           LET o == Handle(Cur, rq)
           IN \A k \in DOMAIN o.st.servers : HasScheme(o.st.servers[k].URL)
    /\ \A u \in URLInputs : \A s \in Sources :
         LET o == NewKapacitor(Cur, s, MkPost(Ptr("kapa1"), Ptr(u), "", "", FALSE), 0)
         IN IF HasScheme(u)
            THEN o.resp.kind = "ok" /\ o.st.servers[nextID].URL = u
            ELSE o.resp.kind = "invalidData" /\ o.st = Cur
    /\ \A u \in URLInputs : \A k \in DOMAIN servers :
         LET o == UpdateKapacitor(Cur, servers[k].SrcID, k,
                                  MkPatch(NilPtr, Ptr(u), NilPtr, NilPtr, NilBool), 0)
         IN IF HasScheme(u)
            THEN o.resp.kind = "ok" /\ o.st.servers[k].URL = u
            ELSE o.resp.kind = "invalidData" /\ o.st = Cur

\* C12 witness: an instance with a url that has a scheme is stored, and both
\* a create and an update of it with the url /kapacitor are answered as
\* invalid data, the stored instance keeping its url.
C12_Witness ==
    \E k \in DOMAIN servers :
        /\ HasScheme(servers[k].URL)
        /\ NewKapacitor(Cur, 1, MkPost(Ptr("kapa1"), Ptr(NoSchemeURL), "", "", FALSE), 0)
               .resp.kind = "invalidData"
        /\ LET o == UpdateKapacitor(Cur, servers[k].SrcID, k,
                        MkPatch(NilPtr, Ptr(NoSchemeURL), NilPtr, NilPtr, NilBool), 0)
           IN o.resp.kind = "invalidData" /\ o.st.servers[k] = servers[k]

\* The position of instance id in the order the store lists its servers.
PosInStore(id) ==
    LET all == StoreAll(servers, 1, nextID - 1)
    IN CHOOSE i \in DOMAIN all : all[i].ID = id

\* C13: listing the instances of source S answers 200 with a non-nil
\* sequence holding the representation of every stored instance whose source
\* id is S, once each and no other, in the order the store lists them (the
\* empty sequence when S owns none), and leaves the state as it was; when
\* the store fails to list, the answer is a server error.
C13_ListBySource ==
    \A s \in SrcIDs :
        LET o == Kapacitors(Cur, s, 0)
            ks == o.resp.body.Kapacitors
            owned == {k \in DOMAIN servers : servers[k].SrcID = s}
            failed == Kapacitors(Cur, s, 1)
        IN /\ o.st = Cur /\ o.calls = << >>
           /\ o.resp.kind = "ok" /\ o.resp.code = 200
           /\ ~ks.nil
           /\ Len(ks.elems) = Cardinality(owned)
           /\ {ks.elems[i].ID : i \in DOMAIN ks.elems} = owned
           /\ \A i \in DOMAIN ks.elems :
                ks.elems[i] = newKapacitor(servers[ks.elems[i].ID])
           /\ \A i \in DOMAIN ks.elems : \A j \in DOMAIN ks.elems :
                i < j => PosInStore(ks.elems[i].ID) < PosInStore(ks.elems[j].ID)
           /\ failed.resp.kind = "serverError" /\ failed.st = Cur

\* C13 witness: two instances are stored under different sources; the
\* listing of the source of the first holds the first alone, and the listing
\* of source 3, which owns none, is the empty non-nil sequence.
C13_Witness ==
    /\ DOMAIN servers = {1, 2}
    /\ servers[1].SrcID # servers[2].SrcID
    /\ LET ks == Kapacitors(Cur, servers[1].SrcID, 0).resp.body.Kapacitors
       IN Len(ks.elems) = 1 /\ ks.elems[1].ID = 1 /\ ks.elems[1].Name = servers[1].Name
    /\ Kapacitors(Cur, 3, 0).resp.body.Kapacitors = MakeEmpty

\* ------------------------------------------ claims on the order of calls

\* The ids of the instances that were stored and have been deleted.
Deleted == (1..(nextID - 1)) \ DOMAIN servers

\* C15: a rule request (create, list, fetch, replace, status change, delete)
\* whose kapacitor id is unknown, deleted or owned by another source is
\* answered not-found with no remote call and no change of state; and
\* deleting a stored instance removes it from the store, after which every
\* rule request through it is answered that way.
C15_ScopeShortCircuit ==
    /\ \A op \in RuleOps : \A rq \in Reqs(op) :
         ~Owned(rq) =>
            LET o == Handle(Cur, rq)
            IN IsNotFound(o.resp, rq.kid) /\ o.calls = << >> /\ o.st = Cur
    /\ \A k \in DOMAIN servers :
         LET d == RemoveKapacitor(Cur, servers[k].SrcID, k, 0)
         IN /\ d.resp = noContent
            /\ k \notin DOMAIN d.st.servers
            /\ d.st.engines = engines
            /\ \A op \in RuleOps : \A rq \in Reqs(op) :
                 rq.kid = k =>
                    LET o == Handle(d.st, rq)
                    IN IsNotFound(o.resp, k) /\ o.calls = << >> /\ o.st = d.st

\* C15 witness: an instance has been deleted while a task lives on an
\* engine; fetching, deleting and listing through the deleted instance is
\* answered not-found without a remote call.
C15_Witness ==
    \E k \in Deleted : \E u \in EngineURLs : \E t \in DOMAIN engines[u] : \E s \in ScopeSrcIDs :
        /\ t \in ReqTids
        /\ IsNotFound(KapacitorRulesID(Cur, s, k, t, 0).resp, k)
        /\ KapacitorRulesID(Cur, s, k, t, 0).calls = << >>
        /\ KapacitorRulesDelete(Cur, s, k, t, 0).calls = << >>
        /\ IsNotFound(KapacitorRulesGet(Cur, s, k, 0, {}).resp, k)

\* The status request for task t through stored instance k, handled in st.
SetStatus(st, k, t, s) ==
    KapacitorRulesStatus(st, servers[k].SrcID, k, t,
                         [malformed |-> FALSE, Status |-> s], 0)

\* C16: for a task living on the engine of a stored instance, two
\* consecutive status requests with the same value (enabled, or disabled)
\* both succeed, both responses carry that status, the task has that status
\* on the engine after each, and the second changes nothing.
C16_StatusIdempotent ==
    \A k \in DOMAIN servers : \A t \in DOMAIN engines[servers[k].URL] :
        \A s \in {"enabled", "disabled"} :
            LET o1 == SetStatus(Cur, k, t, s)
                o2 == SetStatus(o1.st, k, t, s)
                u == servers[k].URL
            IN /\ o1.resp.kind = "ok" /\ o2.resp.kind = "ok"
               /\ o1.resp.body.Status = s /\ o2.resp.body.Status = s
               /\ o1.st.engines[u][t].Status = s
               /\ o2.st.engines[u][t].Status = s
               /\ o2.st = o1.st
               /\ o2.resp = o1.resp
               /\ CallOps(o2) = CallOps(o1)

\* C16 witness: a disabled task lives on the engine of a stored instance;
\* enabling it changes the engine, enabling it again succeeds and changes
\* nothing, and the task ends enabled.
C16_Witness ==
    \E k \in DOMAIN servers : \E t \in DOMAIN engines[servers[k].URL] :
        LET o1 == SetStatus(Cur, k, t, "enabled")
            o2 == SetStatus(o1.st, k, t, "enabled")
        IN /\ engines[servers[k].URL][t].Status = "disabled"
           /\ o1.st.engines # engines
           /\ o1.resp.kind = "ok" /\ o2.resp.kind = "ok"
           /\ o2.st.engines[servers[k].URL][t].Status = "enabled"

\* Rules submitted as the body of a replace request.
ReplaceInputs ==
    RuleBodies \cup
        { MkRule("other", "disk", "1m", NilQuery, MkSlice(<<"slack">>), NilSlice) }

\* C17: after a successful KapacitorRulesPut for task id T through a stored
\* instance, the engine's definition of T is the submitted rule with its id
\* set to T, whatever id the body carried and whatever the definition was;
\* every other task of every engine is as it was, no task is created or
\* removed, the store is untouched, and the response is built from the
\* submitted rule.
C17_FullReplace ==
    \A k \in DOMAIN servers : \A t \in DOMAIN engines[servers[k].URL] :
        \A r \in ReplaceInputs :
            LET u == servers[k].URL
                o == KapacitorRulesPut(Cur, servers[k].SrcID, k, t,
                                       [malformed |-> FALSE, rule |-> r], 0)
            IN /\ o.resp.kind = "ok"
               /\ o.st.engines[u][t].Rule = [r EXCEPT !.ID = t]
               /\ \A v \in EngineURLs :
                    /\ DOMAIN o.st.engines[v] = DOMAIN engines[v]
                    /\ \A x \in DOMAIN engines[v] :
                         (v # u \/ x # t) => o.st.engines[v][x] = engines[v][x]
               /\ o.st.servers = servers /\ o.st.nextTid = nextTid
               /\ o.resp.body.ID = t
               /\ o.resp.body.Name = r.Name /\ o.resp.body.Every = r.Every

\* C17 witness: a task defined by the rule named cpu, every 10s, lives on the
\* engine of a stored instance; replacing it by a rule named disk, every 1m,
\* whose body carries the id x1, succeeds and leaves the task defined by
\* that rule under its own task id.
C17_Witness ==
    \E k \in DOMAIN servers : \E t \in DOMAIN engines[servers[k].URL] :
        LET u == servers[k].URL
            r == [WindowRule EXCEPT !.ID = "x1", !.Name = "disk", !.Every = "1m"]
            o == KapacitorRulesPut(Cur, servers[k].SrcID, k, t,
                                   [malformed |-> FALSE, rule |-> r], 0)
        IN /\ engines[u][t].Rule.Name = "cpu" /\ engines[u][t].Rule.Every = "10s"
           /\ t # "x1"
           /\ o.resp.kind = "ok"
           /\ o.st.engines[u][t].Rule = [r EXCEPT !.ID = t]
           /\ o.st.engines[u][t].Rule.Name = "disk"

\* ---------------------------------------------- claims on what is revealed

\* The handlers that act on one task of an instance.
TaskOps == {"KapacitorRulesID", "KapacitorRulesPut", "KapacitorRulesStatus",
            "KapacitorRulesDelete"}

\* The engine was asked for the task of rq and reported it absent.
TaskReportedAbsent(rq, o) ==
    /\ Owned(rq)
    /\ rq.tid \notin DOMAIN engines[servers[rq.kid].URL]
    /\ rq.fault # 1
    /\ CallOps(o) = <<"Get">>

\* The state with stored instance id owned by source s instead.
OwnedBy(id, s) == [Cur EXCEPT !.servers[id].SrcID = s]

\* C18: for a fetch, replace, status change or delete of one task, the
\* response when the engine reports the task absent is the not-found
\* response naming the kapacitor id, equal in kind, code, message and body
\* to the response the same request gets when the instance is not in the
\* store, when the instance belongs to another source, and when the source
\* id names no source.
C18_NotFoundCollapse ==
    \A op \in TaskOps : \A rq \in Reqs(op) :
        LET o == Handle(Cur, rq)
        IN TaskReportedAbsent(rq, o) =>
             /\ IsNotFound(o.resp, rq.kid)
             /\ o.resp.body = NoBody
             /\ o.st = Cur
             /\ Handle(Without(rq.kid), rq).resp = o.resp
             /\ \A s \in SrcIDs \ {rq.srcID} :
                  /\ Handle(OwnedBy(rq.kid, s), rq).resp = o.resp
                  /\ Handle(Cur, [rq EXCEPT !.srcID = s]).resp = o.resp

\* C18 witness: an instance is stored and a task id is absent from its
\* engine; deleting that task through the instance reaches the engine and is
\* answered not-found, exactly as under another source, where no call is made.
C18_Witness ==
    \E k \in DOMAIN servers : \E t \in ReqTids \ DOMAIN engines[servers[k].URL] :
        \E s \in ScopeSrcIDs \ {servers[k].SrcID} :
            LET o == KapacitorRulesDelete(Cur, servers[k].SrcID, k, t, 0)
                other == KapacitorRulesDelete(Cur, s, k, t, 0)
            IN /\ CallOps(o) = <<"Get">>
               /\ other.calls = << >>
               /\ IsNotFound(o.resp, k)
               /\ other.resp = o.resp

\* The state with the password of stored instance id replaced by pw.
WithPassword(id, pw) == [Cur EXCEPT !.servers[id].Password = pw]

\* C19: the instance returned by create, get and update, and every instance
\* of a listing, has an empty password (left out of the JSON), also when the
\* request or the store holds a non-empty one; it carries the stored id,
\* name, url, username and active flag; and the response to get and list
\* does not depend on the stored password.
C19_PasswordNotReturned ==
    /\ \A op \in {"NewKapacitor", "KapacitorsID", "UpdateKapacitor"} :
         \A rq \in Reqs(op) :
           LET o == Handle(Cur, rq)
           IN o.resp.kind = "ok" =>
                /\ o.resp.body.Password = ""
                /\ LET srv == o.st.servers[o.resp.body.ID]
                   IN /\ o.resp.body.Name = srv.Name /\ o.resp.body.URL = srv.URL
                      /\ o.resp.body.Username = srv.Username
                      /\ o.resp.body.Active = srv.Active
    /\ \A k \in DOMAIN servers : \A b \in PatchInputs :
         UpdateKapacitor(Cur, servers[k].SrcID, k, b, 0).resp.body.Password = ""
    /\ \A rq \in Reqs("Kapacitors") :
         LET o == Handle(Cur, rq)
         IN o.resp.kind = "ok" =>
              \A i \in DOMAIN o.resp.body.Kapacitors.elems :
                  o.resp.body.Kapacitors.elems[i].Password = ""
    /\ \A k \in DOMAIN servers : \A pw \in {"", "p", "secret"} :
         /\ KapacitorsID(WithPassword(k, pw), servers[k].SrcID, k).resp
              = KapacitorsID(Cur, servers[k].SrcID, k).resp
         /\ Kapacitors(WithPassword(k, pw), servers[k].SrcID, 0).resp
              = Kapacitors(Cur, servers[k].SrcID, 0).resp

\* C19 witness: an instance with username u and password p is stored; get
\* returns it with its username and an empty password, the listing of its
\* source likewise, and an update that sets the password secret stores it
\* and returns an empty one.
C19_Witness ==
    \E k \in DOMAIN servers :
        LET got == KapacitorsID(Cur, servers[k].SrcID, k)
            all == Kapacitors(Cur, servers[k].SrcID, 0)
            upd == UpdateKapacitor(Cur, servers[k].SrcID, k,
                       MkPatch(NilPtr, NilURL, NilPtr, Ptr("secret"), NilBool), 0)
        IN /\ servers[k].Password = "p" /\ servers[k].Username = "u"
           /\ got.resp.kind = "ok"
           /\ got.resp.body.Username = "u" /\ got.resp.body.Password = ""
           /\ \E i \in DOMAIN all.resp.body.Kapacitors.elems :
                /\ all.resp.body.Kapacitors.elems[i].ID = k
                /\ all.resp.body.Kapacitors.elems[i].Password = ""
           /\ upd.st.servers[k].Password = "secret"
           /\ upd.resp.body.Password = ""

\* The remote calls that change a task.
MutatingCalls == {"Update", "Enable", "Disable", "Delete"}

\* The handlers that change one task.
MutatingOps == {"KapacitorRulesPut", "KapacitorRulesStatus", "KapacitorRulesDelete"}

\* C20: in KapacitorRulesPut, KapacitorRulesStatus and KapacitorRulesDelete
\* a mutating call (Update, Enable, Disable, Delete) is the second call of
\* the request, for the request's task on the instance's engine, after a Get
\* of that task on that engine which found it; when Get reports the task
\* absent the answer is not-found, when Get fails otherwise it is a server
\* error, and in both cases Get is the only call and the engines are as they
\* were; the engines change only in a request that issued a mutating call.
C20_CheckBeforeMutate ==
    \A op \in MutatingOps : \A rq \in Reqs(op) :
        LET o == Handle(Cur, rq)
        IN /\ \A i \in DOMAIN o.calls :
                o.calls[i].op \in MutatingCalls =>
                   /\ i = 2
                   /\ Owned(rq)
                   /\ o.calls[1] = Call(servers[rq.kid].URL, "Get", rq.tid)
                   /\ o.calls[2].url = servers[rq.kid].URL
                   /\ o.calls[2].tid = rq.tid
                   /\ rq.fault # 1
                   /\ rq.tid \in DOMAIN engines[servers[rq.kid].URL]
           /\ o.calls # << >> =>
                /\ Owned(rq)
                /\ o.calls[1] = Call(servers[rq.kid].URL, "Get", rq.tid)
                /\ rq.fault = 1 =>
                     /\ o.resp.kind = "serverError" /\ o.resp.code = 500
                     /\ Len(o.calls) = 1
                     /\ o.st = Cur
                /\ (rq.fault # 1 /\ rq.tid \notin DOMAIN engines[servers[rq.kid].URL]) =>
                     /\ IsNotFound(o.resp, rq.kid)
                     /\ Len(o.calls) = 1
                     /\ o.st = Cur
                /\ (rq.fault # 1 /\ rq.tid \in DOMAIN engines[servers[rq.kid].URL]) =>
                     /\ Len(o.calls) = 2
                     /\ o.calls[2].op \in MutatingCalls
           /\ o.st.engines # engines =>
                \E i \in DOMAIN o.calls : o.calls[i].op \in MutatingCalls
           /\ o.st.servers = servers

\* C20 witness: a task lives on the engine of a stored instance; deleting it
\* issues Get then Delete and removes it, deleting another task id issues
\* Get alone and is answered not-found, and when Get fails in transport the
\* answer is a server error and the task stays.
C20_Witness ==
    \E k \in DOMAIN servers : \E t \in DOMAIN engines[servers[k].URL] :
        LET u == servers[k].URL
            del(x, f) == KapacitorRulesDelete(Cur, servers[k].SrcID, k, x, f)
        IN /\ TaskIDs[4] \notin DOMAIN engines[u]
           /\ CallOps(del(t, 0)) = <<"Get", "Delete">>
           /\ t \notin DOMAIN del(t, 0).st.engines[u]
           /\ CallOps(del(TaskIDs[4], 0)) = <<"Get">>
           /\ IsNotFound(del(TaskIDs[4], 0).resp, k)
           /\ CallOps(del(t, 1)) = <<"Get">>
           /\ del(t, 1).resp.kind = "serverError"
           /\ del(t, 1).st.engines = engines

\* ------------------------------------------------ claims on reported status

\* The handlers that answer with one rule.
RuleResponseOps == {"KapacitorRulesPost", "KapacitorRulesPut", "KapacitorRulesStatus",
                    "KapacitorRulesID"}

\* The status of the task of a successful response o to rq, on the engine
\* of the instance, in the state the request leaves.
EngineStatusOf(rq, o) == o.st.engines[servers[rq.kid].URL][o.resp.body.ID].Status

\* C22 (as claimed): the status in every successful rule response (create,
\* replace, status change, fetch) is the status the task has on the engine
\* when the response is written, and it is the status a fetch of the same
\* task reports right after.
C22_StatusReported ==
    \A op \in RuleResponseOps : \A rq \in Reqs(op) :
        LET o == Handle(Cur, rq)
        IN o.resp.kind = "ok" =>
             /\ o.resp.body.Status = EngineStatusOf(rq, o)
             /\ KapacitorRulesID(o.st, rq.srcID, rq.kid, o.resp.body.ID, 0).resp.body.Status
                  = o.resp.body.Status

\* ----------------------------------------------------- claims on concurrency

\* The fields of a patch body, and those a body supplies.
PatchFields == {"Name", "URL", "Username", "Password", "Active"}
Supplied(b) == {f \in PatchFields : ~b[f].nil}

\* C21 (as claimed): when two UpdateKapacitor requests on the same instance
\* that supply disjoint sets of fields have both completed successfully,
\* whatever the interleaving of their store Get and store Update steps, the
\* stored instance carries every value either request supplied.
C21_NoLostUpdate ==
    \A v \in Workers : \A w \in Workers \ {v} :
        ( /\ workers[v].pc = "done" /\ workers[w].pc = "done"
          /\ workers[v].resp.kind = "ok" /\ workers[w].resp.kind = "ok"
          /\ workers[v].id = workers[w].id
          /\ Supplied(workers[v].body) \cap Supplied(workers[w].body) = {} )
        => \A f \in Supplied(workers[v].body) :
               servers[workers[v].id][f] = workers[v].body[f].v

====
